---- MODULE Spec2Model ----
(***************************************************************************)
(* ai-doc: rustdoc JSON -> readable text.                                  *)
(*                                                                         *)
(* The model has two layers, as src/lib.rs has:                            *)
(*   - the serde schema (lines 7-259): each #[derive(Deserialize)] type    *)
(*     is its declaration, and Deserialize(ty, j) takes a JSON value to a  *)
(*     result Ok(v) / Err, following serde's rules for structs, Option     *)
(*     fields, #[serde(default)] and #[serde(untagged)] enums;             *)
(*   - the printers (lines 263-542): Display for Parameter / ReturnType,   *)
(*     format_angle_bracketed_args, GenericArg::format, FunctionDecl::print*)
(*     RustDocItem::print and RustDoc::print.                              *)
(*                                                                         *)
(* Text is modelled as TLA+ strings; printed output is a sequence of       *)
(* lines.                                                                  *)
(***************************************************************************)
EXTENDS Integers, Sequences, FiniteSets, TLC

VARIABLES
    tjson,      \* SpecType: the JSON value handed to the type deserializers
    param,      \* SpecType: serde_json::from_value::<Parameter>(tjson), or Pending
    ret,        \* SpecType: serde_json::from_value::<ReturnType>(tjson), or Pending
    pstr,       \* SpecType: format!("{}", param), or Pending
    rstr,       \* SpecType: format!("{}", ret), or Pending
    json,       \* Spec: the JSON document handed to serde_json::from_str::<RustDoc>
    doc,        \* Spec: the parse result, or Pending
    pc,         \* Spec: position of the test_parse_all run
    todo,       \* Spec: identifiers the loop over self.index has not yet visited
    out,        \* Spec: lines written to stdout so far
    emitted,    \* Spec: history of the loop: [id, lines] for each visit, in order
    fjson,      \* SpecFn: the JSON value of a function declaration
    fname,      \* SpecFn: the name of the item that holds it
    fdecl,      \* SpecFn: serde_json::from_value::<FunctionDecl>(fjson), or Pending
    fout        \* SpecFn: the lines FunctionDecl::print wrote, or None

vars == <<tjson, param, ret, pstr, rstr, json, doc, pc, todo, out, emitted,
          fjson, fname, fdecl, fout>>

typeVars == <<tjson, param, ret, pstr, rstr>>
docVars == <<json, doc, pc, todo, out, emitted>>
fnVars == <<fjson, fname, fdecl, fout>>

(***************************************************************************)
(* Bounds of the model.                                                    *)
(***************************************************************************)
MaxDepth == 1       \* wrappers nested around a base type expression
MaxTuple == 2       \* elements of a tuple type
MaxArgs == 2        \* generic arguments in an angle-bracketed list
MaxBounds == 2      \* trait bounds of an impl/dyn type
MaxItems == 2       \* entries of the index of a document
MaxParams == 2      \* parameters of a function declaration

(***************************************************************************)
(* JSON values (serde_json::Value).                                        *)
(***************************************************************************)
JNull == [t |-> "null"]
JBool(b) == [t |-> "bool", b |-> b]
JStr(s) == [t |-> "str", s |-> s]
JArr(a) == [t |-> "arr", a |-> a]
JObj(o) == [t |-> "obj", o |-> o]
EmptyObj == JObj(<<>>)

\* What a struct visitor sees for a key that the object does not hold.
Absent == [t |-> "absent"]

(***************************************************************************)
(* Result and Option.                                                      *)
(***************************************************************************)
Ok(v) == [ok |-> TRUE, v |-> v]
Err == [ok |-> FALSE]
None == [some |-> FALSE]
Some(x) == [some |-> TRUE, v |-> x]
Pending == [ok |-> FALSE, pending |-> TRUE]

IsPending(r) == "pending" \in DOMAIN r

(***************************************************************************)
(* The schema (lib.rs 7-259), as data.  #[derive(Deserialize)] generates   *)
(* each deserializer from the declaration of its type, so a type is        *)
(* modelled by its declaration: a struct is the list of its fields (Rust   *)
(* name, JSON key after #[serde(rename)], type), an untagged enum the list *)
(* of its variants in declaration order, each a struct variant with one    *)
(* field.  Box<T> is T.                                                    *)
(*                                                                         *)
(* A String whose line structure is printed (docs) is the sequence of its  *)
(* lines; every other String is a TLA+ string.                             *)
(***************************************************************************)
TString == [c |-> "String"]
TBool == [c |-> "bool"]
TOption(T) == [c |-> "Option", of |-> T]
TVec(T) == [c |-> "Vec", of |-> T]
\* #[serde(default)] on a Vec<T> field
TDefaultVec(T) == [c |-> "DefaultVec", of |-> T]
\* (String, T)
TNamedPair(T) == [c |-> "Pair", of |-> T]
\* HashMap<String, T>
THashMap(T) == [c |-> "HashMap", of |-> T]
\* a struct or an enum of this schema
TRef(n) == [c |-> "Ref", n |-> n]

Field(name, key, ty) == [name |-> name, key |-> key, ty |-> ty]
Struct(fields) == [kind |-> "struct", fields |-> fields]
VariantOf(tag, key, ty) == [tag |-> tag, key |-> key, ty |-> ty]
UntaggedEnum(variants) == [kind |-> "untagged", variants |-> variants]

RustDoc ==
    Struct(<<Field("root", "root", TString),
             Field("crate_version", "crate_version", TString),
             Field("includes_private", "includes_private", TBool),
             Field("index", "index", THashMap(TRef("RustDocItem")))>>)

RustDocItem ==
    Struct(<<Field("docs", "docs", TOption(TString)),
             Field("visibility", "visibility", TOption(TString)),
             Field("name", "name", TOption(TString)),
             Field("inner", "inner", TOption(TRef("ItemInner")))>>)

ItemInner ==
    Struct(<<Field("function", "function", TOption(TRef("FunctionDetails"))),
             Field("enum_", "enum", TOption(TRef("EnumDetails")))>>)

EnumDetails ==
    Struct(<<Field("variants", "variants", TVec(TString)),
             Field("variants_stripped", "variants_stripped", TBool)>>)

FunctionDetails == Struct(<<Field("decl", "decl", TRef("FunctionDecl"))>>)

FunctionDecl ==
    Struct(<<Field("inputs", "inputs", TVec(TNamedPair(TRef("Parameter")))),
             Field("output", "output", TOption(TRef("ReturnType"))),
             Field("c_variadic", "c_variadic", TBool)>>)

Parameter ==
    UntaggedEnum(<<VariantOf("BorrowedRef", "borrowed_ref", TRef("BorrowedRefParam")),
                   VariantOf("Primitive", "primitive", TString),
                   VariantOf("Generic", "generic", TString),
                   VariantOf("ResolvedPath", "resolved_path", TRef("ResolvedPath")),
                   VariantOf("Qualified", "qualified_path", TRef("QualifiedPath")),
                   VariantOf("Slice", "slice", TRef("Parameter")),
                   VariantOf("Array", "array", TRef("ParameterArrayType")),
                   VariantOf("RawPointer", "raw_pointer", TRef("RawPointer")),
                   VariantOf("ImplTrait", "impl_trait", TVec(TRef("ImplTrait"))),
                   VariantOf("DynTrait", "dyn_trait", TRef("DynTrait"))>>)

DynTrait ==
    Struct(<<Field("lifetime", "lifetime", TOption(TString)),
             Field("traits", "traits", TVec(TRef("TraitBound")))>>)

ParameterArrayType ==
    Struct(<<Field("len", "len", TString),
             Field("type_", "type", TRef("Parameter"))>>)

BorrowedRefParam ==
    Struct(<<Field("lifetime", "lifetime", TOption(TString)),
             Field("mutable", "mutable", TBool),
             Field("type_", "type", TRef("Parameter"))>>)

BorrowedRefReturn ==
    Struct(<<Field("lifetime", "lifetime", TOption(TString)),
             Field("mutable", "mutable", TBool),
             Field("type_", "type", TRef("ReturnType"))>>)

ResolvedPath ==
    Struct(<<Field("name", "name", TString),
             Field("id", "id", TOption(TString)),
             Field("args", "args", TOption(TRef("GenericArgs")))>>)

GenericArgs ==
    UntaggedEnum(<<VariantOf("AngleBracketed", "angle_bracketed", TRef("AngleBracketed")),
                   VariantOf("Parenthesized", "parenthesized",
                             TRef("ParenthesizedGenericArgs"))>>)

ParenthesizedGenericArgs ==
    Struct(<<Field("inputs", "inputs", TVec(TRef("Parameter"))),
             Field("output", "output", TOption(TRef("ReturnType")))>>)

AngleBracketed ==
    Struct(<<Field("args", "args", TVec(TRef("GenericArg"))),
             Field("bindings", "bindings", TDefaultVec(TRef("TypeBinding")))>>)

\* #[serde(default)] on the Option field args changes nothing: a missing
\* Option field is None with or without it.
TypeBinding ==
    Struct(<<Field("name", "name", TString),
             Field("args", "args", TOption(TRef("GenericArgs"))),
             Field("binding", "binding", TRef("BindingKind"))>>)

BindingKind ==
    UntaggedEnum(<<VariantOf("Equality", "equality", TRef("EqualityConstraint"))>>)

EqualityConstraint == Struct(<<Field("type_", "type", TRef("ReturnType"))>>)

GenericArg ==
    UntaggedEnum(<<VariantOf("Type", "type", TRef("TypeContent")),
                   VariantOf("Lifetime", "lifetime", TString)>>)

TypeContent ==
    Struct(<<Field("primitive", "primitive", TOption(TString)),
             Field("slice", "slice", TOption(TRef("SliceContent")))>>)

SliceContent == Struct(<<Field("primitive", "primitive", TString)>>)

ReturnType ==
    UntaggedEnum(<<VariantOf("ResolvedPath", "resolved_path", TRef("ResolvedPath")),
                   VariantOf("BorrowedRef", "borrowed_ref", TRef("BorrowedRefReturn")),
                   VariantOf("Primitive", "primitive", TString),
                   VariantOf("Generic", "generic", TString),
                   VariantOf("Qualified", "qualified_path", TRef("QualifiedPath")),
                   VariantOf("Array", "array", TRef("ArrayType")),
                   VariantOf("Tuple", "tuple", TVec(TRef("ReturnType"))),
                   VariantOf("Slice", "slice", TRef("ReturnType")),
                   VariantOf("RawPointer", "raw_pointer", TRef("RawPointer")),
                   VariantOf("ImplTrait", "impl_trait", TVec(TRef("ImplTrait"))),
                   VariantOf("DynTrait", "dyn_trait", TRef("DynTrait"))>>)

ImplTrait == Struct(<<Field("trait_bound", "trait_bound", TRef("TraitBound"))>>)

TraitBound ==
    Struct(<<Field("generic_params", "generic_params", TVec(TRef("GenericParam"))),
             Field("modifier", "modifier", TOption(TString)),
             Field("trait_", "trait", TRef("ResolvedPath"))>>)

GenericParam == Struct(<<>>)

ArrayType ==
    Struct(<<Field("len", "len", TString),
             Field("type_", "type", TRef("ReturnType"))>>)

RawPointer ==
    Struct(<<Field("mutable", "mutable", TBool),
             Field("type_", "type", TRef("ReturnType"))>>)

\* The field trait_ carries no rename, so its JSON key is "trait_".
QualifiedPath ==
    Struct(<<Field("name", "name", TString),
             Field("args", "args", TOption(TRef("GenericArgs"))),
             Field("self_type", "self_type", TRef("Parameter")),
             Field("trait_", "trait_", TOption(TRef("ResolvedPath")))>>)

Schema ==
    [RustDoc |-> RustDoc, RustDocItem |-> RustDocItem, ItemInner |-> ItemInner,
     EnumDetails |-> EnumDetails, FunctionDetails |-> FunctionDetails,
     FunctionDecl |-> FunctionDecl, Parameter |-> Parameter, DynTrait |-> DynTrait,
     ParameterArrayType |-> ParameterArrayType, BorrowedRefParam |-> BorrowedRefParam,
     BorrowedRefReturn |-> BorrowedRefReturn, ResolvedPath |-> ResolvedPath,
     GenericArgs |-> GenericArgs, ParenthesizedGenericArgs |-> ParenthesizedGenericArgs,
     AngleBracketed |-> AngleBracketed, TypeBinding |-> TypeBinding,
     BindingKind |-> BindingKind, EqualityConstraint |-> EqualityConstraint,
     GenericArg |-> GenericArg, TypeContent |-> TypeContent,
     SliceContent |-> SliceContent, ReturnType |-> ReturnType, ImplTrait |-> ImplTrait,
     TraitBound |-> TraitBound, GenericParam |-> GenericParam, ArrayType |-> ArrayType,
     RawPointer |-> RawPointer, QualifiedPath |-> QualifiedPath]

(***************************************************************************)
(* serde: what the derived deserializers do with a JSON value.             *)
(***************************************************************************)

\* The value a struct visitor sees under a key: Absent for a key the object lacks.
FieldValue(j, key) == IF key \in DOMAIN j.o THEN j.o[key] ELSE Absent

\* The first result that is Ok, or Err if none is.
RECURSIVE FirstOk(_)
FirstOk(attempts) ==
    IF attempts = <<>> THEN Err
    ELSE IF Head(attempts).ok THEN Head(attempts)
    ELSE FirstOk(Tail(attempts))

RECURSIVE Deserialize(_, _)

\* A derived struct over a JSON object: every field must deserialize; keys
\* that name no field are ignored (no deny_unknown_fields in the schema).
\* Anything but an object is rejected here: rustdoc never emits the
\* positional (array) encoding of a struct.
DeserializeStruct(s, j) ==
    IF j.t # "obj" THEN Err
    ELSE LET n == Len(s.fields)
             rs == [i \in 1..n |->
                        Deserialize(s.fields[i].ty, FieldValue(j, s.fields[i].key))]
         IN IF \A i \in 1..n : rs[i].ok
            THEN Ok([name \in {s.fields[i].name : i \in 1..n} |->
                        rs[CHOOSE i \in 1..n : s.fields[i].name = name].v])
            ELSE Err

\* One struct variant of an untagged enum.
DeserializeVariant(variant, j) ==
    IF j.t # "obj" THEN Err
    ELSE LET r == Deserialize(variant.ty, FieldValue(j, variant.key))
         IN IF r.ok THEN Ok([k |-> variant.tag, v |-> r.v]) ELSE Err

\* #[serde(untagged)]: the variants are tried in declaration order and the
\* first one that deserializes wins; if none does, the enum is rejected.
DeserializeUntagged(s, j) ==
    FirstOk([i \in 1..Len(s.variants) |-> DeserializeVariant(s.variants[i], j)])

Deserialize(ty, j) ==
    CASE ty.c = "String" -> IF j.t = "str" THEN Ok(j.s) ELSE Err
      [] ty.c = "bool" -> IF j.t = "bool" THEN Ok(j.b) ELSE Err
      [] ty.c = "Option" ->
            \* a missing key and null are both None
            IF j.t \in {"absent", "null"} THEN Ok(None)
            ELSE LET r == Deserialize(ty.of, j)
                 IN IF r.ok THEN Ok(Some(r.v)) ELSE Err
      [] ty.c \in {"Vec", "DefaultVec"} ->
            IF ty.c = "DefaultVec" /\ j.t = "absent" THEN Ok(<<>>)
            ELSE IF j.t # "arr" THEN Err
            ELSE LET rs == [i \in 1..Len(j.a) |-> Deserialize(ty.of, j.a[i])]
                 IN IF \A i \in 1..Len(j.a) : rs[i].ok
                    THEN Ok([i \in 1..Len(j.a) |-> rs[i].v])
                    ELSE Err
      [] ty.c = "Pair" ->
            IF j.t # "arr" \/ Len(j.a) # 2 THEN Err
            ELSE LET first == Deserialize(TString, j.a[1])
                     second == Deserialize(ty.of, j.a[2])
                 IN IF first.ok /\ second.ok THEN Ok(<<first.v, second.v>>) ELSE Err
      [] ty.c = "HashMap" ->
            IF j.t # "obj" THEN Err
            ELSE LET rs == [key \in DOMAIN j.o |-> Deserialize(ty.of, j.o[key])]
                 IN IF \A key \in DOMAIN j.o : rs[key].ok
                    THEN Ok([key \in DOMAIN j.o |-> rs[key].v])
                    ELSE Err
      [] ty.c = "Ref" ->
            IF Schema[ty.n].kind = "struct"
            THEN DeserializeStruct(Schema[ty.n], j)
            ELSE DeserializeUntagged(Schema[ty.n], j)

Deserialize_Parameter(j) == Deserialize(TRef("Parameter"), j)
Deserialize_ReturnType(j) == Deserialize(TRef("ReturnType"), j)
Deserialize_FunctionDecl(j) == Deserialize(TRef("FunctionDecl"), j)
Deserialize_RustDoc(j) == Deserialize(TRef("RustDoc"), j)

(***************************************************************************)
(* The printers (lib.rs 330-542).                                          *)
(***************************************************************************)

\* [String]::join(sep)
RECURSIVE join(_, _)
join(strs, sep) ==
    IF strs = <<>> THEN ""
    ELSE IF Len(strs) = 1 THEN strs[1]
    ELSE strs[1] \o sep \o join(Tail(strs), sep)

\* GenericArg::format (353-368)
GenericArg_format(arg) ==
    IF arg.k = "Type"
    THEN IF arg.v.primitive.some THEN arg.v.primitive.v
         ELSE IF arg.v.slice.some THEN "[" \o arg.v.slice.v.primitive \o "]"
         ELSE "/* unknown type */"
    ELSE arg.v

\* Fault: the brackets written around an empty list too.
format_angle_bracketed_args_always(args) ==
    IF args.some /\ args.v.k = "AngleBracketed"
    THEN "<" \o join([i \in 1..Len(args.v.v.args) |-> GenericArg_format(args.v.v.args[i])],
                     ", ") \o ">"
    ELSE ""

\* format_angle_bracketed_args (521-542); args is an Option<&GenericArgs>
format_angle_bracketed_args(args) ==
    IF ~args.some THEN ""
    ELSE IF args.v.k = "AngleBracketed"
    THEN LET formatted_args == [i \in 1..Len(args.v.v.args) |->
                                    GenericArg_format(args.v.v.args[i])]
         IN IF formatted_args = <<>> THEN ""
            ELSE "<" \o join(formatted_args, ", ") \o ">"
    ELSE ""

\* Fault: mut written before the lifetime.
BorrowedRef_prefix_mut_first(borrowed_ref) ==
    "&" \o (IF borrowed_ref.mutable THEN "mut " ELSE "")
        \o (IF borrowed_ref.lifetime.some THEN borrowed_ref.lifetime.v \o " " ELSE "")

\* The prefix both Display impls write for a borrowed reference: & lifetime mut.
BorrowedRef_prefix(borrowed_ref) ==
    (IF borrowed_ref.lifetime.some THEN "&" \o borrowed_ref.lifetime.v \o " " ELSE "&")
        \o (IF borrowed_ref.mutable THEN "mut " ELSE "")

\* The closure of the ImplTrait arm: the bare trait name of each bound.
ImplTrait_bounds(impl_trait) ==
    join([i \in 1..Len(impl_trait) |-> impl_trait[i].trait_bound.trait_.name], " + ")

\* The closure of the DynTrait arm: name + angle-bracketed args of each bound.
DynTrait_joined_traits(dyn_trait) ==
    join([i \in 1..Len(dyn_trait.traits) |->
            dyn_trait.traits[i].trait_.name
                \o format_angle_bracketed_args(dyn_trait.traits[i].trait_.args)],
         " + ")

\* impl fmt::Display for ReturnType (439-519)
RECURSIVE Display_ReturnType(_)

\* The loop of the Tuple arm over tuple[i..]: ", " before every element but the first.
RECURSIVE Tuple_elements(_, _)
Tuple_elements(tuple, i) ==
    IF i > Len(tuple) THEN ""
    ELSE (IF i > 1 THEN ", " ELSE "") \o Display_ReturnType(tuple[i])
            \o Tuple_elements(tuple, i + 1)

Display_ReturnType(self) ==
    CASE self.k = "Primitive" -> self.v
      [] self.k = "ResolvedPath" -> self.v.name \o format_angle_bracketed_args(self.v.args)
      [] self.k = "Array" ->
            "[" \o Display_ReturnType(self.v.type_) \o "; " \o self.v.len \o "]"
      [] self.k = "BorrowedRef" ->
            BorrowedRef_prefix(self.v) \o Display_ReturnType(self.v.type_)
      [] self.k = "Tuple" ->
            IF self.v = <<>> THEN "()"
            ELSE "(" \o Tuple_elements(self.v, 1) \o ")"
      [] self.k = "Generic" -> self.v
      [] self.k = "Qualified" -> self.v.name \o format_angle_bracketed_args(self.v.args)
      [] self.k = "Slice" -> "[" \o Display_ReturnType(self.v) \o "]"
      [] self.k = "RawPointer" ->
            IF self.v.mutable
            THEN "*mut " \o Display_ReturnType(self.v.type_)
            ELSE "*const " \o Display_ReturnType(self.v.type_)
      [] self.k = "ImplTrait" -> "impl " \o ImplTrait_bounds(self.v)
      [] self.k = "DynTrait" -> "dyn " \o DynTrait_joined_traits(self.v)

\* impl fmt::Display for Parameter (370-437)
RECURSIVE Display_Parameter(_)
Display_Parameter(self) ==
    CASE self.k = "BorrowedRef" ->
            BorrowedRef_prefix(self.v) \o Display_Parameter(self.v.type_)
      [] self.k = "Primitive" -> self.v
      [] self.k = "Qualified" -> self.v.name \o format_angle_bracketed_args(self.v.args)
      [] self.k = "Generic" -> self.v
      [] self.k = "ResolvedPath" -> self.v.name \o format_angle_bracketed_args(self.v.args)
      [] self.k = "Slice" -> "[" \o Display_Parameter(self.v) \o "]"
      [] self.k = "Array" ->
            "[" \o Display_Parameter(self.v.type_) \o "; " \o self.v.len \o "]"
      [] self.k = "RawPointer" ->
            IF self.v.mutable
            THEN "*mut " \o Display_ReturnType(self.v.type_)
            ELSE "*const " \o Display_ReturnType(self.v.type_)
      [] self.k = "ImplTrait" -> "impl " \o ImplTrait_bounds(self.v)
      [] self.k = "DynTrait" -> "dyn " \o DynTrait_joined_traits(self.v)

(***************************************************************************)
(* The item printers (lib.rs 263-351).  Each returns the lines it writes.  *)
(***************************************************************************)

\* str::starts_with
starts_with(s, prefix) ==
    Len(s) >= Len(prefix) /\ SubSeq(s, 1, Len(prefix)) = prefix

OwnCrateMarker == "0:"

\* The character U+0060, and the Markdown fences built of it.
Backtick == SubSeq("`'", 1, 1)
FenceOpen == Backtick \o Backtick \o Backtick \o "rust"
FenceClose == Backtick \o Backtick \o Backtick

\* The loop of FunctionDecl::print over inputs[i..], first being i = 1.
RECURSIVE FunctionDecl_inputs(_, _)
FunctionDecl_inputs(inputs, i) ==
    IF i > Len(inputs) THEN ""
    ELSE (IF i # 1 THEN ", " ELSE "")
            \o inputs[i][1] \o ": " \o Display_Parameter(inputs[i][2])
            \o FunctionDecl_inputs(inputs, i + 1)

\* Fault: a variadic declaration shown with a trailing "...".
FunctionDecl_print_variadic(self, name) ==
    << FenceOpen,
       "pub fn " \o name \o "(" \o FunctionDecl_inputs(self.inputs, 1)
            \o (IF self.c_variadic THEN ", ..." ELSE "") \o ")"
            \o (IF self.output.some THEN " -> " \o Display_ReturnType(self.output.v) ELSE "")
            \o ";",
       FenceClose >>

\* FunctionDecl::print (330-351)
FunctionDecl_print(self, name) ==
    << FenceOpen,
       "pub fn " \o name \o "(" \o FunctionDecl_inputs(self.inputs, 1) \o ")"
            \o (IF self.output.some THEN " -> " \o Display_ReturnType(self.output.v) ELSE "")
            \o ";",
       FenceClose >>

\* println!("    /// {docs}"): the prefix goes before the first line only.
Variant_docs(docs) == <<"    /// " \o docs[1]>> \o Tail(docs)

\* The body of the loop over enum_details.variants (309-316).
Variant_lines(index, variant_id) ==
    IF variant_id \in DOMAIN index
    THEN LET variant == index[variant_id]
         IN (IF variant.docs.some THEN Variant_docs(variant.docs.v) ELSE <<>>)
            \o (IF variant.name.some THEN <<"    " \o variant.name.v \o ",">> ELSE <<>>)
    ELSE <<>>

RECURSIVE Enum_variants(_, _, _)
Enum_variants(index, variants, i) ==
    IF i > Len(variants) THEN <<>>
    ELSE Variant_lines(index, variants[i]) \o Enum_variants(index, variants, i + 1)

\* The enum branch of RustDocItem::print (305-321).
Enum_print(enum_details, name, index) ==
    <<FenceOpen, "pub enum " \o name \o " {">>
        \o Enum_variants(index, enum_details.variants, 1)
        \o <<"}", FenceClose, "">>

\* Fault: the comment written before the declaration block.
RustDocItem_print_docs_first(self, index) ==
    IF ~self.name.some \/ ~self.docs.some THEN <<>>
    ELSE <<"---", "", Backtick \o self.name.v \o Backtick \o ":", "">>
            \o self.docs.v
            \o <<"">>
            \o (IF self.inner.some /\ self.inner.v.function.some
                THEN FunctionDecl_print(self.inner.v.function.v.decl, self.name.v) \o <<"">>
                ELSE <<>>)
            \o (IF self.inner.some /\ self.inner.v.enum_.some
                THEN Enum_print(self.inner.v.enum_.v, self.name.v, index)
                ELSE <<>>)

\* RustDocItem::print (286-327)
RustDocItem_print(self, index) ==
    IF ~self.name.some THEN <<>>
    ELSE IF ~self.docs.some THEN <<>>
    ELSE LET name == self.name.v
         IN <<"---", "", Backtick \o name \o Backtick \o ":", "">>
            \o (IF self.inner.some
                THEN (IF self.inner.v.function.some
                      THEN FunctionDecl_print(self.inner.v.function.v.decl, name) \o <<"">>
                      ELSE <<>>)
                     \o (IF self.inner.v.enum_.some
                         THEN Enum_print(self.inner.v.enum_.v, name, index)
                         ELSE <<>>)
                ELSE <<>>)
            \o self.docs.v
            \o <<"">>

\* The lines RustDoc::print writes before the loop (265-274).
RustDoc_header(self) ==
    << "Crate Documentation", "==================", "",
       "Root: " \o self.root,
       "Version: " \o self.crate_version,
       "Includes private items: " \o (IF self.includes_private THEN "true" ELSE "false"),
       "", "Items", "-----", "" >>

\* Fault: the loop without the filter on the identifier.
RustDoc_visit_every(self, id) == RustDocItem_print(self.index[id], self.index)

\* One iteration of the loop of RustDoc::print (276-281).
RustDoc_visit(self, id) ==
    IF starts_with(id, OwnCrateMarker)
    THEN RustDocItem_print(self.index[id], self.index)
    ELSE <<>>

(***************************************************************************)
(* Inputs: JSON type expressions as rustdoc writes them, and malformed     *)
(* ones (no variant key, several variant keys, a payload of the wrong      *)
(* type).                                                                  *)
(***************************************************************************)
SeqsUpTo(S, n) == UNION {[1..k -> S] : k \in 0..n}

Obj1(key, val) == JObj(key :> val)

jPrimitive(name) == Obj1("primitive", JStr(name))
jGeneric(name) == Obj1("generic", JStr(name))
jResolvedPath(name, args) ==
    Obj1("resolved_path", JObj([name |-> JStr(name), id |-> JNull, args |-> args]))
jQualifiedPath(name, args, self_type) ==
    Obj1("qualified_path",
         JObj([name |-> JStr(name), args |-> args, self_type |-> self_type,
               trait |-> JNull]))
jBorrowedRef(lifetime, mutable, type_) ==
    Obj1("borrowed_ref",
         JObj([lifetime |-> lifetime, mutable |-> JBool(mutable), type |-> type_]))
jRawPointer(mutable, type_) ==
    Obj1("raw_pointer", JObj([mutable |-> JBool(mutable), type |-> type_]))
jSlice(type_) == Obj1("slice", type_)
jArray(type_, len) == Obj1("array", JObj([type |-> type_, len |-> JStr(len)]))
jTuple(types) == Obj1("tuple", JArr(types))
jTraitBound(name, args) ==
    JObj([generic_params |-> JArr(<<>>), modifier |-> JStr("none"),
          trait |-> JObj([name |-> JStr(name), id |-> JNull, args |-> args])])
jImplTrait(bounds) ==
    Obj1("impl_trait",
         JArr([i \in 1..Len(bounds) |-> Obj1("trait_bound", bounds[i])]))
jDynTrait(bounds) ==
    Obj1("dyn_trait", JObj([lifetime |-> JNull, traits |-> JArr(bounds)]))
jAngleBracketed(args) ==
    Obj1("angle_bracketed", JObj([args |-> JArr(args), bindings |-> JArr(<<>>)]))
jParenthesized(inputs, output) ==
    Obj1("parenthesized", JObj([inputs |-> JArr(inputs), output |-> output]))

\* The shapes of one generic argument.
GenericArgShapes ==
    { Obj1("type", jPrimitive("u8")),                       \* Vec<u8>
      Obj1("type", jSlice(jPrimitive("u8"))),               \* Box<[u8]>
      Obj1("type", jGeneric("T")),                          \* Vec<T>
      Obj1("lifetime", JStr("'a")),                         \* Cow<'a>
      Obj1("type", jSlice(jGeneric("T"))),                  \* Box<[T]>
      Obj1("const", JObj([expr |-> JStr("N")])) }           \* Buf<N>

ArgLists == SeqsUpTo(GenericArgShapes, MaxArgs)

\* The values of an args field.
ArgsForms ==
    { JNull, EmptyObj,
      Obj1("angle_bracketed", JObj([args |-> JArr(<<Obj1("type", jPrimitive("u8"))>>)])),
      Obj1("angle_bracketed",
           JObj([args |-> JArr(<<>>),
                 bindings |-> JArr(<<JObj([name |-> JStr("Item"),
                                           binding |-> Obj1("equality",
                                                Obj1("type", jPrimitive("u8")))])>>)])),
      jParenthesized(<<>>, JNull),
      jParenthesized(<<jPrimitive("u8")>>, jPrimitive("bool")),
      JObj([angle_bracketed |-> JObj([args |-> JArr(<<Obj1("type", jPrimitive("u8"))>>)]),
            parenthesized |-> JObj([inputs |-> JArr(<<>>), output |-> JNull])]) }
    \cup {jAngleBracketed(l) : l \in ArgLists}

\* The values of the args field of a trait bound.
BoundArgsForms ==
    { JNull,
      jParenthesized(<<>>, JNull),
      jAngleBracketed(<<>>),
      jAngleBracketed(<<Obj1("type", jPrimitive("u8"))>>),
      jAngleBracketed(<<Obj1("type", jPrimitive("u8")),
                        Obj1("type", jSlice(jPrimitive("u8")))>>),
      jAngleBracketed(<<Obj1("lifetime", JStr("'a")), Obj1("type", jGeneric("T"))>>) }

BoundLists(args) ==
    SeqsUpTo({jTraitBound("Iterator", args), jTraitBound("Send", JNull)}, MaxBounds)

\* Named references with every form of argument list, and impl and dyn types.
PathInputs ==
    UNION {{jResolvedPath("Vec", a), jQualifiedPath("Item", a, jGeneric("T"))} :
                a \in ArgsForms}
    \cup UNION {{jImplTrait(b) : b \in BoundLists(a)} \cup {jDynTrait(b) : b \in BoundLists(a)} :
                a \in BoundArgsForms}

\* One well-formed value per variant key.
VariantKeys ==
    {"primitive", "generic", "borrowed_ref", "raw_pointer", "slice", "array", "tuple",
     "resolved_path", "qualified_path", "impl_trait", "dyn_trait"}

VariantSample ==
    [primitive |-> jPrimitive("u8"),
     generic |-> jGeneric("T"),
     borrowed_ref |-> jBorrowedRef(JNull, FALSE, jPrimitive("str")),
     raw_pointer |-> jRawPointer(FALSE, jPrimitive("u8")),
     slice |-> jSlice(jPrimitive("u8")),
     array |-> jArray(jPrimitive("u8"), "4"),
     tuple |-> jTuple(<<>>),
     resolved_path |-> jResolvedPath("String", JNull),
     qualified_path |-> jQualifiedPath("Item", JNull, jGeneric("T")),
     impl_trait |-> jImplTrait(<<jTraitBound("Display", JNull)>>),
     dyn_trait |-> jDynTrait(<<jTraitBound("Send", JNull)>>)]

\* Objects holding the keys of two variants at once.
TwoKeyInputs ==
    {JObj(VariantSample[p[1]].o @@ VariantSample[p[2]].o) :
        p \in {q \in VariantKeys \X VariantKeys : q[1] # q[2]}}

\* The base expressions that wrappers are nested around.
BaseInputs ==
    {VariantSample[k] : k \in VariantKeys}
    \cup { EmptyObj,
           Obj1("primitive", JBool(TRUE)),
           JObj([primitive |-> JStr("u8"), generic |-> JStr("T")]) }

\* Tuples of primitives with x at one position.
TupleForms(x) ==
    {[i \in 1..n |-> IF i = k THEN x ELSE jPrimitive("u8")] : n \in 1..MaxTuple, k \in 1..MaxTuple}

Wrap(x) ==
    {jBorrowedRef(lt, m, x) : lt \in {JNull, JStr("'a")}, m \in BOOLEAN}
    \cup {jRawPointer(m, x) : m \in BOOLEAN}
    \cup {jSlice(x), jArray(x, "4")}
    \cup {jTuple(t) : t \in TupleForms(x)}

RECURSIVE Nested(_)
Nested(d) ==
    IF d = 0 THEN BaseInputs
    ELSE LET inner == Nested(d - 1) IN inner \cup UNION {Wrap(x) : x \in inner}

TypeInputs == Nested(MaxDepth) \cup TwoKeyInputs \cup PathInputs

(***************************************************************************)
(* SpecType: one JSON value is deserialized in parameter position and in   *)
(* return position, and each parsed expression is displayed.               *)
(***************************************************************************)
DocIdle ==
    /\ json = JNull
    /\ doc = Pending
    /\ pc = "idle"
    /\ todo = {}
    /\ out = <<>>
    /\ emitted = <<>>

TypeIdle ==
    /\ tjson = JNull
    /\ param = Pending
    /\ ret = Pending
    /\ pstr = None
    /\ rstr = None

FnIdle ==
    /\ fjson = JNull
    /\ fname = ""
    /\ fdecl = Pending
    /\ fout = None

InitType ==
    /\ tjson \in TypeInputs
    /\ param = Pending
    /\ ret = Pending
    /\ pstr = None
    /\ rstr = None
    /\ DocIdle
    /\ FnIdle

\* serde_json::from_value::<Parameter>(tjson)
DeserializeParameter ==
    /\ IsPending(param)
    /\ param' = Deserialize_Parameter(tjson)
    /\ UNCHANGED <<tjson, ret, pstr, rstr, docVars, fnVars>>

\* serde_json::from_value::<ReturnType>(tjson)
DeserializeReturnType ==
    /\ IsPending(ret)
    /\ ret' = Deserialize_ReturnType(tjson)
    /\ UNCHANGED <<tjson, param, pstr, rstr, docVars, fnVars>>

\* format!("{}", param)
FmtParameter ==
    /\ param.ok
    /\ ~pstr.some
    /\ pstr' = Some(Display_Parameter(param.v))
    /\ UNCHANGED <<tjson, param, ret, rstr, docVars, fnVars>>

\* format!("{}", ret)
FmtReturnType ==
    /\ ret.ok
    /\ ~rstr.some
    /\ rstr' = Some(Display_ReturnType(ret.v))
    /\ UNCHANGED <<tjson, param, ret, pstr, docVars, fnVars>>

NextType ==
    \/ DeserializeParameter
    \/ DeserializeReturnType
    \/ FmtParameter
    \/ FmtReturnType

SpecType == InitType /\ [][NextType]_vars

(***************************************************************************)
(* Inputs: function declarations.                                          *)
(***************************************************************************)
jFunctionDecl(inputs, output, c_variadic) ==
    JObj([inputs |-> JArr([i \in 1..Len(inputs) |->
                              JArr(<<JStr(inputs[i][1]), inputs[i][2]>>)]),
          output |-> output,
          c_variadic |-> JBool(c_variadic)])

ParamNames == <<"a", "b", "c", "d">>

ParamTypes ==
    { jPrimitive("i32"),
      jBorrowedRef(JNull, FALSE, jPrimitive("str")),
      jResolvedPath("Vec", jAngleBracketed(<<Obj1("type", jPrimitive("u8"))>>)),
      jTuple(<<>>) }

OutputTypes ==
    { JNull, jPrimitive("i32"), jTuple(<<>>),
      jBorrowedRef(JStr("'a"), TRUE, jGeneric("T")) }

FnInputs ==
    {jFunctionDecl([i \in 1..Len(ts) |-> <<ParamNames[i], ts[i]>>], o, v) :
        ts \in SeqsUpTo(ParamTypes, MaxParams), o \in OutputTypes, v \in BOOLEAN}

(***************************************************************************)
(* SpecFn: one function declaration is deserialized and printed.           *)
(***************************************************************************)
InitFn ==
    /\ fjson \in FnInputs
    /\ fname \in {"add", "f"}
    /\ fdecl = Pending
    /\ fout = None
    /\ TypeIdle
    /\ DocIdle

\* serde_json::from_value::<FunctionDecl>(fjson)
DeserializeFunctionDecl ==
    /\ IsPending(fdecl)
    /\ fdecl' = Deserialize_FunctionDecl(fjson)
    /\ UNCHANGED <<fjson, fname, fout, typeVars, docVars>>

\* f.decl.print(name)
PrintFunctionDecl ==
    /\ fdecl.ok
    /\ ~fout.some
    /\ fout' = Some(FunctionDecl_print(fdecl.v, fname))
    /\ UNCHANGED <<fjson, fname, fdecl, typeVars, docVars>>

NextFn ==
    \/ DeserializeFunctionDecl
    \/ PrintFunctionDecl

SpecFn == InitFn /\ [][NextFn]_vars

(***************************************************************************)
(* Inputs: documents.                                                      *)
(***************************************************************************)
jItem(name, docs, inner) ==
    JObj([name |-> name, docs |-> docs, visibility |-> JStr("public"), inner |-> inner])

jFunction(inputs, output, c_variadic) ==
    JObj([decl |-> jFunctionDecl(inputs, output, c_variadic)])

jEnum(variants) ==
    JObj([variants |-> JArr([i \in 1..Len(variants) |-> JStr(variants[i])]),
          variants_stripped |-> JBool(FALSE)])

jAdd ==
    jFunction(<< <<"a", jPrimitive("i32")>>, <<"b", jPrimitive("i32")>> >>,
              jPrimitive("i32"), FALSE)

\* An identifier that no document of the model holds.
DanglingId == "0:9"

jColorVariants == jEnum(<<"0:2", DanglingId, "10:3">>)

ItemInputs ==
    { \* /// Adds two numbers.  pub fn add(a: i32, b: i32) -> i32
      jItem(JStr("add"), JStr(<<"Adds two numbers.">>), Obj1("function", jAdd)),
      \* pub unsafe extern "C" fn log(fmt: &str, ...), with a two-line comment
      jItem(JStr("log"), JStr(<<"Logs.", "Variadic.">>),
            Obj1("function",
                 jFunction(<< <<"fmt", jBorrowedRef(JNull, FALSE, jPrimitive("str"))>> >>,
                           JNull, TRUE))),
      \* pub enum Color, its variants being other entries of the index
      jItem(JStr("Color"), JStr(<<"Colors.">>), Obj1("enum", jColorVariants)),
      \* a variant with a two-line comment
      jItem(JStr("Red"), JStr(<<"Red one.", "Warm.">>), Obj1("variant", EmptyObj)),
      \* a variant without a comment
      jItem(JStr("Green"), JNull, Obj1("variant", EmptyObj)),
      \* an impl block: a comment and no name
      jItem(JNull, JStr(<<"Orphan.">>), Obj1("impl", EmptyObj)),
      \* neither a name nor a comment
      jItem(JNull, JNull, JNull),
      \* a module: name and comment, inner: null
      jItem(JStr("util"), JStr(<<"Utilities.">>), JNull),
      \* an inner object holding both keys
      jItem(JStr("both"), JStr(<<"Both.">>),
            JObj([function |-> jAdd, enum |-> jColorVariants])),
      \* docs of the wrong type
      jItem(JStr("bad"), JBool(TRUE), JNull) }

ItemIds == {"0:1", "0:2", "10:3"}

IndexInputs ==
    UNION {[D -> ItemInputs] : D \in {E \in SUBSET ItemIds : Cardinality(E) <= MaxItems}}

jRustDoc(index) ==
    JObj([root |-> JStr("0:0"), crate_version |-> JStr("0.1.0"),
          includes_private |-> JBool(FALSE), index |-> JObj(index)])

DocInputs == {jRustDoc(index) : index \in IndexInputs}

(***************************************************************************)
(* Spec: test_parse_all (650-653): a document is parsed and printed.       *)
(***************************************************************************)
Init ==
    /\ json \in DocInputs
    /\ doc = Pending
    /\ pc = "parse"
    /\ todo = {}
    /\ out = <<>>
    /\ emitted = <<>>
    /\ TypeIdle
    /\ FnIdle

\* serde_json::from_str::<RustDoc>(..).unwrap(): a parse error panics.
Parse ==
    /\ pc = "parse"
    /\ doc' = Deserialize_RustDoc(json)
    /\ pc' = IF doc'.ok THEN "header" ELSE "panicked"
    /\ UNCHANGED <<json, todo, out, emitted, typeVars, fnVars>>

\* RustDoc::print up to the loop.
PrintHeader ==
    /\ pc = "header"
    /\ out' = RustDoc_header(doc.v)
    /\ todo' = DOMAIN doc.v.index
    /\ pc' = "items"
    /\ UNCHANGED <<json, doc, emitted, typeVars, fnVars>>

\* One iteration of the loop; a HashMap yields each entry once, in any order.
VisitItem(id) ==
    /\ pc = "items"
    /\ id \in todo
    /\ LET lines == RustDoc_visit(doc.v, id)
       IN /\ out' = out \o lines
          /\ emitted' = Append(emitted, [id |-> id, lines |-> lines])
    /\ todo' = todo \ {id}
    /\ UNCHANGED <<json, doc, pc, typeVars, fnVars>>

\* The loop ends, and RustDoc::print returns.
Return ==
    /\ pc = "items"
    /\ todo = {}
    /\ pc' = "done"
    /\ UNCHANGED <<json, doc, todo, out, emitted, typeVars, fnVars>>

Next ==
    \/ Parse
    \/ PrintHeader
    \/ \E id \in ItemIds : VisitItem(id)
    \/ Return

Spec == Init /\ [][Next]_vars

(***************************************************************************)
(* Properties.                                                             *)
(***************************************************************************)

\* The inner object of a JSON item holds both the key function and the key enum.
HasBothKeys(jitem) ==
    /\ jitem.t = "obj"
    /\ "inner" \in DOMAIN jitem.o
    /\ jitem.o["inner"].t = "obj"
    /\ {"function", "enum"} \subseteq DOMAIN jitem.o["inner"].o

\* A parsed item holds both a function declaration and enum details.
HoldsBoth(item) ==
    /\ item.inner.some
    /\ item.inner.v.function.some
    /\ item.inner.v.enum_.some

\* The lines of one item hold both a pub fn line and a pub enum line.
EmitsBoth(lines) ==
    /\ \E i \in 1..Len(lines) : starts_with(lines[i], "pub fn ")
    /\ \E i \in 1..Len(lines) : starts_with(lines[i], "pub enum ")

\* C1: a document with an item whose inner object holds both the key function
\* and the key enum fails to parse; so no parsed item holds both a function
\* declaration and enum details, and no printed item shows both a pub fn
\* block and a pub enum block.
C1_FunctionAndEnumExclusive ==
    /\ (pc # "parse" /\ \E id \in DOMAIN json.o.index.o : HasBothKeys(json.o.index.o[id]))
            => ~doc.ok
    /\ doc.ok => \A id \in DOMAIN doc.v.index : ~HoldsBoth(doc.v.index[id])
    /\ \A i \in 1..Len(emitted) : ~EmitsBoth(emitted[i].lines)

\* The variant keys of an untagged enum of the schema, and those a JSON object holds.
VariantKeysOf(enum) == {enum.variants[i].key : i \in 1..Len(enum.variants)}
KeysPresent(j, enum) == DOMAIN j.o \cap VariantKeysOf(enum)

\* C2: a type expression in parameter position, one in return position, and a
\* GenericArgs value each deserialize only if the object holds exactly one
\* variant key of the union: no key, or two or more keys, is an error.
C2_ExactlyOneVariantKey ==
    /\ param.ok => Cardinality(KeysPresent(tjson, Parameter)) = 1
    /\ ret.ok => Cardinality(KeysPresent(tjson, ReturnType)) = 1
    /\ (ret.ok /\ ret.v.k = "ResolvedPath" /\ ret.v.v.args.some)
            => Cardinality(KeysPresent(tjson.o["resolved_path"].o["args"], GenericArgs)) = 1

\* Each of the eleven variants alone, and inside a reference, a slice and an array.
EveryVariant == {VariantSample[k] : k \in VariantKeys}
EveryVariantNested ==
    EveryVariant
    \cup UNION {{jBorrowedRef(JNull, FALSE, x), jSlice(x), jArray(x, "4")} : x \in EveryVariant}

\* C3: each of the eleven variants is accepted in parameter position as well
\* as in return position, also inside a reference, a slice or an array.
C3_EveryVariantInBothPositions ==
    tjson \in EveryVariantNested =>
        /\ (~IsPending(param) => param.ok)
        /\ (~IsPending(ret) => ret.ok)

\* The entries RustDoc::print is to render: own crate, named and documented.
IsOwnNamedDocumented(index, id) ==
    /\ Len(id) >= 2
    /\ SubSeq(id, 1, 2) = "0:"
    /\ index[id].name.some
    /\ index[id].docs.some

RECURSIVE Flatten(_)
Flatten(blocks) ==
    IF blocks = <<>> THEN <<>> ELSE Head(blocks).lines \o Flatten(Tail(blocks))

Occurrences(lines, line) == Cardinality({i \in 1..Len(lines) : lines[i] = line})

Heading(name) == Backtick \o name \o Backtick \o ":"

\* C4: when RustDoc::print has returned, every entry of the index was visited
\* exactly once; an entry wrote a block if and only if its identifier starts
\* with 0: and its item has a name and a comment, any other entry wrote
\* nothing at all; the output is the header followed by those blocks, one
\* separator line per printed entry.
C4_PrintedIffOwnNamedDocumented ==
    pc = "done" =>
        LET index == doc.v.index
            printed == {id \in DOMAIN index : IsOwnNamedDocumented(index, id)}
        IN /\ \A id \in DOMAIN index :
                Cardinality({i \in 1..Len(emitted) : emitted[i].id = id}) = 1
           /\ \A i \in 1..Len(emitted) :
                /\ emitted[i].id \in DOMAIN index
                /\ (emitted[i].lines # <<>>) <=> (emitted[i].id \in printed)
           /\ out = RustDoc_header(doc.v) \o Flatten(emitted)
           /\ Occurrences(out, "---") = Cardinality(printed)
           /\ \A id \in printed : Occurrences(out, Heading(index[id].name.v)) >= 1

\* C4 happens: a run that printed one entry and skipped a named, documented
\* entry of another crate.
C4_Witness ==
    /\ pc = "done"
    /\ \E a, b \in DOMAIN doc.v.index :
        /\ IsOwnNamedDocumented(doc.v.index, a)
        /\ ~starts_with(b, OwnCrateMarker)
        /\ doc.v.index[b].name.some
        /\ doc.v.index[b].docs.some
        /\ Occurrences(out, "---") = 1

\* C5: the lines of a printed item are the separator, a blank line, the
\* heading, a blank line, then the declaration block (opened and closed by a
\* fence and followed by a blank line) if and only if the item is a function
\* or an enum, then the comment and a blank line.
C5_BlockOrder ==
    \A i \in 1..Len(emitted) :
        LET lines == emitted[i].lines
            item == doc.v.index[emitted[i].id]
            n == Len(lines)
        IN lines # <<>> =>
            LET docs == item.docs.v
                fenced == SubSeq(lines, 5, n - Len(docs) - 1)
                declared == /\ item.inner.some
                            /\ item.inner.v.function.some \/ item.inner.v.enum_.some
            IN /\ n >= 5 + Len(docs)
               /\ SubSeq(lines, 1, 4) = <<"---", "", Heading(item.name.v), "">>
               /\ SubSeq(lines, n - Len(docs), n - 1) = docs
               /\ lines[n] = ""
               /\ IF declared
                  THEN /\ Len(fenced) >= 4
                       /\ fenced[1] = FenceOpen
                       /\ fenced[Len(fenced) - 1] = FenceClose
                       /\ fenced[Len(fenced)] = ""
                  ELSE fenced = <<>>

\* C5 happens: a function item and an item without inner were both printed.
C5_Witness ==
    /\ pc = "done"
    /\ \E i, k \in 1..Len(emitted) :
        /\ emitted[i].lines # <<>>
        /\ emitted[k].lines # <<>>
        /\ doc.v.index[emitted[i].id].inner.some
        /\ doc.v.index[emitted[i].id].inner.v.function.some
        /\ ~doc.v.index[emitted[k].id].inner.some

\* The parameters of a declaration, each as name: type.
TypedParams(decl) ==
    [i \in 1..Len(decl.inputs) |->
        decl.inputs[i][1] \o ": " \o Display_Parameter(decl.inputs[i][2])]

Signature(decl, name) ==
    "pub fn " \o name \o "(" \o join(TypedParams(decl), ", ") \o ")"
        \o (IF decl.output.some THEN " -> " \o Display_ReturnType(decl.output.v) ELSE "")
        \o ";"

\* The JSON declaration with c_variadic set to b.
SetVariadic(j, b) ==
    JObj([key \in DOMAIN j.o |-> IF key = "c_variadic" THEN JBool(b) ELSE j.o[key]])

\* C6: FunctionDecl::print writes the rust fence, then pub fn name( the
\* parameters as name: type joined by ", " ) and -> return if and only if
\* the declaration has an output, then ; and the closing fence; the text is
\* the same for c_variadic true and false.
C6_FunctionDeclText ==
    fout.some =>
        /\ fout.v = <<FenceOpen, Signature(fdecl.v, fname), FenceClose>>
        /\ fdecl.v.output.some <=> (fjson.o["output"].t # "null")
        /\ \A b \in BOOLEAN :
            FunctionDecl_print(Deserialize_FunctionDecl(SetVariadic(fjson, b)).v, fname)
                = fout.v

\* C6 happens: a variadic declaration with two parameters and an output was printed.
C6_Witness ==
    /\ fout.some
    /\ fdecl.v.c_variadic
    /\ fout.v[2] = "pub fn add(a: i32, b: &str) -> &'a mut T;"

\* A doc comment as a line comment: every line of it behind ///.
DocComment(docs) == [i \in 1..Len(docs) |-> "    /// " \o docs[i]]

\* The entry of one variant: its doc comment, if it has one, then its name.
Entry(variant) ==
    (IF variant.docs.some THEN DocComment(variant.docs.v) ELSE <<>>)
        \o (IF variant.name.some THEN <<"    " \o variant.name.v \o ",">> ELSE <<>>)

\* The entries of the variants that resolve, in the order of the list.
RECURSIVE Entries(_, _)
Entries(index, variants) ==
    IF variants = <<>> THEN <<>>
    ELSE (IF Head(variants) \in DOMAIN index THEN Entry(index[Head(variants)]) ELSE <<>>)
            \o Entries(index, Tail(variants))

\* C7: a printed enum item shows, between pub enum name { and }, one entry
\* per variant identifier that resolves in the index, in the order of the
\* variants list, each entry being the doc comment of the variant as a ///
\* line comment followed by its name and a comma; an identifier absent from
\* the index contributes nothing.
C7_EnumBody ==
    \A i \in 1..Len(emitted) :
        LET lines == emitted[i].lines
            item == doc.v.index[emitted[i].id]
        IN (/\ lines # <<>>
            /\ item.inner.some
            /\ item.inner.v.enum_.some
            /\ ~item.inner.v.function.some)
            => SubSeq(lines, 5, Len(lines) - Len(item.docs.v) - 1)
                 = <<FenceOpen, "pub enum " \o item.name.v \o " {">>
                    \o Entries(doc.v.index, item.inner.v.enum_.v.variants)
                    \o <<"}", FenceClose, "">>

\* The rule for one JSON generic argument: a primitive, a slice of a
\* primitive, or the placeholder.
IsPrimitiveOnly(j) == j.t = "obj" /\ DOMAIN j.o = {"primitive"} /\ j.o["primitive"].t = "str"

ArgRule(a) ==
    IF DOMAIN a.o = {"type"} /\ IsPrimitiveOnly(a.o["type"])
    THEN a.o["type"].o["primitive"].s
    ELSE IF /\ DOMAIN a.o = {"type"}
            /\ a.o["type"].t = "obj"
            /\ DOMAIN a.o["type"].o = {"slice"}
            /\ IsPrimitiveOnly(a.o["type"].o["slice"])
    THEN "[" \o a.o["type"].o["slice"].o["primitive"].s \o "]"
    ELSE "/* unknown type */"

\* C8: whatever the shapes of its generic arguments, a path with an
\* angle-bracketed list loads in both positions, and each argument renders
\* as the name of the primitive, as [p] for a slice of a primitive p, and as
\* the placeholder for any other shape.
C8_GenericArgsNeverFail ==
    \A l \in ArgLists \ {<<>>} :
        tjson = jResolvedPath("Vec", jAngleBracketed(l)) =>
            /\ (~IsPending(ret) => ret.ok)
            /\ (~IsPending(param) => param.ok)
            /\ (rstr.some =>
                    rstr.v = "Vec<" \o join([i \in 1..Len(l) |-> ArgRule(l[i])], ", ") \o ">")

\* What the code renders for a JSON type expression in a position.
Render(pos, j) ==
    IF pos = "param"
    THEN Display_Parameter(Deserialize_Parameter(j).v)
    ELSE Display_ReturnType(Deserialize_ReturnType(j).v)

\* The wrapper rules, by recursion over the JSON tree; an expression that is
\* no wrapper (a path, a trait list, an object of several keys) is rendered
\* as the code renders it.  The pointee of a raw pointer is in return position.
RECURSIVE WrapperRule(_, _)
WrapperRule(pos, j) ==
    IF Cardinality(DOMAIN j.o) # 1 THEN Render(pos, j)
    ELSE LET key == CHOOSE k \in DOMAIN j.o : TRUE
             v == j.o[key]
         IN CASE key \in {"primitive", "generic"} -> v.s
              [] key = "borrowed_ref" ->
                    "&" \o (IF v.o["lifetime"].t = "str" THEN v.o["lifetime"].s \o " " ELSE "")
                        \o (IF v.o["mutable"].b THEN "mut " ELSE "")
                        \o WrapperRule(pos, v.o["type"])
              [] key = "raw_pointer" ->
                    (IF v.o["mutable"].b THEN "*mut " ELSE "*const ")
                        \o WrapperRule("ret", v.o["type"])
              [] key = "slice" -> "[" \o WrapperRule(pos, v) \o "]"
              [] key = "array" ->
                    "[" \o WrapperRule(pos, v.o["type"]) \o "; " \o v.o["len"].s \o "]"
              [] key = "tuple" ->
                    IF v.a = <<>> THEN "()"
                    ELSE "(" \o join([i \in 1..Len(v.a) |-> WrapperRule(pos, v.a[i])], ", ")
                             \o ")"
              [] OTHER -> Render(pos, j)

\* C9: a displayed type expression is the string the wrapper rules give for
\* its tree: a primitive or a generic is its name; a reference is &, the
\* lifetime and a space if any, mut and a space if mutable, then the inner
\* type; a raw pointer is *mut or *const and the inner type; a slice is [t];
\* an array is [t; n]; the empty tuple is () and any other tuple its
\* elements joined by ", " in parentheses.
C9_WrapperRules ==
    /\ rstr.some => rstr.v = WrapperRule("ret", tjson)
    /\ pstr.some => pstr.v = WrapperRule("param", tjson)

\* C9 happens: a tuple holding a primitive and the empty tuple was displayed.
C9_Witness ==
    /\ "tuple" \in DOMAIN tjson.o
    /\ rstr = Some("(u8, ())")

\* The argument list of a JSON args value: the arguments in angle brackets,
\* and nothing for null, a parenthesized list or an empty list.
ArgList(a) ==
    IF a.t = "obj" /\ "angle_bracketed" \in DOMAIN a.o
    THEN LET l == a.o["angle_bracketed"].o["args"].a
         IN IF l = <<>> THEN ""
            ELSE "<" \o join([i \in 1..Len(l) |->
                                GenericArg_format(Deserialize(TRef("GenericArg"), l[i]).v)],
                             ", ") \o ">"
    ELSE ""

\* The rule for a named reference, a dyn type and an impl type.
PathRule(j) ==
    LET key == CHOOSE k \in DOMAIN j.o : TRUE
        v == j.o[key]
    IN CASE key \in {"resolved_path", "qualified_path"} ->
                v.o["name"].s \o ArgList(v.o["args"])
         [] key = "dyn_trait" ->
                "dyn " \o join([i \in 1..Len(v.o["traits"].a) |->
                                    v.o["traits"].a[i].o["trait"].o["name"].s
                                        \o ArgList(v.o["traits"].a[i].o["trait"].o["args"])],
                               " + ")
         [] key = "impl_trait" ->
                "impl " \o join([i \in 1..Len(v.a) |->
                                    v.a[i].o["trait_bound"].o["trait"].o["name"].s],
                                " + ")

IsPath(j) ==
    /\ Cardinality(DOMAIN j.o) = 1
    /\ DOMAIN j.o \subseteq {"resolved_path", "qualified_path", "dyn_trait", "impl_trait"}

HasEmptyBrackets(str) == \E i \in 1..(Len(str) - 1) : SubSeq(str, i, i + 1) = "<>"

\* C10: a resolved path, a qualified path and each bound of a dyn type
\* render as the name followed by the arguments joined by ", " in angle
\* brackets, and by nothing when the args are absent, parenthesized or an
\* empty list, so <> is never written; a dyn type is dyn and its bounds
\* joined by " + ", an impl type is impl and the bare trait names joined by
\* " + ".
C10_NamedReferences ==
    /\ (rstr.some /\ IsPath(tjson)) => rstr.v = PathRule(tjson) /\ ~HasEmptyBrackets(rstr.v)
    /\ (pstr.some /\ IsPath(tjson)) => pstr.v = PathRule(tjson) /\ ~HasEmptyBrackets(pstr.v)

\* C10 happens: a dyn type of two bounds, the first with two arguments, was displayed.
C10_Witness ==
    /\ "dyn_trait" \in DOMAIN tjson.o
    /\ rstr = Some("dyn Iterator<u8, [u8]> + Send")
    /\ pstr = rstr

\* C11: the two Display impls agree: a JSON value that deserializes both as
\* a Parameter and as a ReturnType is displayed as the same string in both
\* positions, at every nesting depth.
C11_RenderersAgree ==
    (pstr.some /\ rstr.some) => pstr.v = rstr.v

====
